---- MODULE Spec2Model ----
(***************************************************************************)
(* A model of cron_builder.py: CronExpr (the expression of one cron field), *)
(* CronField (a bounded slot holding one CronExpr) and CronBuilder (five    *)
(* CronFields and an optional day conjunction).                             *)
(*                                                                          *)
(* Objects live on a heap: `fields` and `builders` are sequences indexed by *)
(* object identity, so that sharing of CronField objects between the copies *)
(* an immutable builder makes, and in-place mutation in mutable mode, are   *)
(* both visible.  A Python str is a sequence of one-character strings.      *)
(* A raised ValueError is the value "ValueError" of the machine's exc.      *)
(***************************************************************************)
EXTENDS Integers, Sequences, FiniteSets, TLC

VARIABLES
    fields,     \* heap of CronField objects: Seq of records
    builders,   \* heap of CronBuilder objects: Seq of records
    held,       \* identities of the builders the caller holds a reference to
    warned,     \* warnings.warn records emitted by the last call
    last,       \* the last call: op, receiver, arguments, outcome
    pre,        \* the heap as it was before the last call
    ncalls      \* number of calls made so far

vars == <<fields, builders, held, warned, last, pre, ncalls>>

(***************************************************************************)
(* Bounds of the model.                                                     *)
(***************************************************************************)
\* calls made on builders in one behaviour of Spec
MaxCalls == 2
\* length of the *values argument lists of the builder's list setters in Spec
MaxList == 1
\* largest in-range interval tried by every_minutes and every_hours in Spec
MaxEvery == 1
\* calls made on fields in one behaviour of FieldSpec
MaxFieldCalls == 2
\* length of the *values argument list of CronField.set_values in FieldSpec
MaxFieldList == 2
\* largest in-range interval tried by CronField.set_interval in FieldSpec
MaxInterval == 2
\* setter calls made on builders in one behaviour of DaySpec
MaxDayCalls == 2
\* length of the *values argument lists of on_doms and on_dows in DaySpec
MaxDayList == 1
\* calls made in a run that builds several schedules from one builder
MaxPairCalls == 3

(***************************************************************************)
(* Python str as a sequence of characters.                                  *)
(***************************************************************************)
Digits == <<"0", "1", "2", "3", "4", "5", "6", "7", "8", "9">>

RECURSIVE str_nat(_)
str_nat(n) ==
    IF n < 10 THEN <<Digits[n + 1]>>
    ELSE str_nat(n \div 10) \o <<Digits[(n % 10) + 1]>>

\* str(int)
str_int(n) == IF n < 0 THEN <<"-">> \o str_nat(0 - n) ELSE str_nat(n)

\* sep.join(strs)
RECURSIVE join(_, _)
join(sep, strs) ==
    IF Len(strs) = 0 THEN <<>>
    ELSE IF Len(strs) = 1 THEN strs[1]
    ELSE strs[1] \o sep \o join(sep, Tail(strs))

(***************************************************************************)
(* class Weekday / class Month: the members the builder's defaults use.     *)
(***************************************************************************)
Weekday_MONDAY == 1
Month_JANUARY == 1

(***************************************************************************)
(* class CronExpr                                                           *)
(***************************************************************************)
CronExpr(kind, values) == [kind |-> kind, values |-> values]

\* CronExpr.matches
CronExpr_matches(self, actual) ==
    IF self.kind = "any" THEN TRUE
    ELSE IF self.kind = "value" THEN actual = self.values[1]
    ELSE IF self.kind = "list" THEN \E i \in 1..Len(self.values) : self.values[i] = actual
    ELSE IF self.kind = "range" THEN self.values[1] <= actual /\ actual <= self.values[2]
    ELSE IF self.kind = "step" THEN
        LET start == self.values[1]
            step  == self.values[2]
        IN  IF start = -1 THEN actual % step = 0
            ELSE actual >= start /\ (actual - start) % step = 0
    ELSE FALSE

\* CronExpr.to_cron_str
to_cron_str(self) ==
    IF self.kind = "any" THEN <<"*">>
    ELSE IF self.kind = "value" THEN str_int(self.values[1])
    ELSE IF self.kind = "list" THEN
        join(<<",">>, [i \in 1..Len(self.values) |-> str_int(self.values[i])])
    ELSE IF self.kind = "range" THEN
        str_int(self.values[1]) \o <<"-">> \o str_int(self.values[2])
    ELSE IF self.kind = "step" THEN
        LET start == self.values[1]
            step  == self.values[2]
        IN  IF start = -1 THEN <<"*", "/">> \o str_int(step)
            ELSE str_int(start) \o <<"/">> \o str_int(step)
    ELSE <<"*">>

(***************************************************************************)
(* class CronField.  A machine m is the heap plus the state of the call in  *)
(* progress: m.exc is "none" or the exception raised, m.ret the identity of *)
(* the object returned, m.warned the warnings emitted.                      *)
(***************************************************************************)
\* CronField.__init__
CronField(min_val, max_val, name, immutable) ==
    [min_val |-> min_val, max_val |-> max_val, name |-> name,
     immutable |-> immutable, expr |-> CronExpr("any", <<>>)]

Raise(m) == [m EXCEPT !.exc = "ValueError"]

\* a bug: only the upper bound is tested
validate_upper_only(f, val) == val <= f.max_val

\* CronField._validate_value: TRUE when it returns, FALSE when it raises
_validate_value(f, val) == f.min_val <= val /\ val <= f.max_val

\* CronField._warn_overwrite
_warn_overwrite(m, self, new_expr) ==
    IF m.fields[self].expr.kind # "any"
    THEN [m EXCEPT !.warned = Append(@, [kind |-> "overwritten",
                                          name |-> m.fields[self].name,
                                          old  |-> to_cron_str(m.fields[self].expr),
                                          new  |-> to_cron_str(new_expr)])]
    ELSE m

\* a bug: the field is overwritten in place whatever its mode
apply_in_place(m, self, expr) ==
    [m EXCEPT !.fields[self].expr = expr, !.ret = self]

\* a bug: the overwrite warning is given in immutable mode too
apply_always_warns(m, self, expr) ==
    LET w == _warn_overwrite(m, self, expr)
        f == w.fields[self]
    IN  IF f.immutable
        THEN [w EXCEPT !.fields = Append(@, [f EXCEPT !.expr = expr]),
                       !.ret = Len(w.fields) + 1]
        ELSE [w EXCEPT !.fields[self].expr = expr, !.ret = self]

\* CronField._apply
_apply(m, self, expr) ==
    LET f == m.fields[self]
    IN  IF f.immutable
        THEN LET new_field == [CronField(f.min_val, f.max_val, f.name, f.immutable)
                                  EXCEPT !.expr = expr]
             IN  [m EXCEPT !.fields = Append(@, new_field),
                           !.ret = Len(m.fields) + 1]
        ELSE LET w == _warn_overwrite(m, self, expr)
             IN  [w EXCEPT !.fields[self].expr = expr, !.ret = self]

\* CronField.set_value
set_value(m, self, val) ==
    IF ~_validate_value(m.fields[self], val) THEN Raise(m)
    ELSE _apply(m, self, CronExpr("value", <<val>>))

\* a bug: only the first of the values is validated
set_values_first_only(m, self, values) ==
    IF Len(values) > 0 /\ ~_validate_value(m.fields[self], values[1]) THEN Raise(m)
    ELSE _apply(m, self, CronExpr("list", values))

\* CronField.set_values
set_values(m, self, values) ==
    IF \E i \in 1..Len(values) : ~_validate_value(m.fields[self], values[i])
    THEN Raise(m)
    ELSE _apply(m, self, CronExpr("list", values))

\* a bug: the start <= end test is missing
set_range_unordered(m, self, start, end) ==
    IF ~_validate_value(m.fields[self], start) THEN Raise(m)
    ELSE IF ~_validate_value(m.fields[self], end) THEN Raise(m)
    ELSE _apply(m, self, CronExpr("range", <<start, end>>))

\* CronField.set_range
set_range(m, self, start, end) ==
    IF ~_validate_value(m.fields[self], start) THEN Raise(m)
    ELSE IF ~_validate_value(m.fields[self], end) THEN Raise(m)
    ELSE IF start > end THEN Raise(m)
    ELSE _apply(m, self, CronExpr("range", <<start, end>>))

\* CronField.set_interval (start = -1 is the default: the wildcard)
set_interval(m, self, interval, start) ==
    IF interval <= 0 THEN Raise(m)
    ELSE IF start # -1 /\ ~_validate_value(m.fields[self], start) THEN Raise(m)
    ELSE _apply(m, self, CronExpr("step", <<start, interval>>))

\* CronField.set_any
set_any(m, self) == _apply(m, self, CronExpr("any", <<>>))

\* CronField.matches
matches(f, actual) == CronExpr_matches(f.expr, actual)

\* CronField.__str__
CronField_str(f) == to_cron_str(f.expr)

(***************************************************************************)
(* class CronBuilder                                                        *)
(***************************************************************************)
FieldNames == <<"minute", "hour", "day_of_month", "month", "day_of_week">>

\* the bounds CronBuilder.__init__ gives each of its fields
min_val_of(name) ==
    CASE name = "minute" -> 0
      [] name = "hour" -> 0
      [] name = "day_of_month" -> 1
      [] name = "month" -> 1
      [] name = "day_of_week" -> 0

max_val_of(name) ==
    CASE name = "minute" -> 59
      [] name = "hour" -> 23
      [] name = "day_of_month" -> 31
      [] name = "month" -> 12
      [] name = "day_of_week" -> 6

\* self._conjunction = None
None == <<>>

\* CronBuilder.__init__: five fresh fields at identities base+1 .. base+5
CronBuilder_fields(immutable) ==
    [i \in 1..5 |-> CronField(min_val_of(FieldNames[i]), max_val_of(FieldNames[i]),
                              FieldNames[i], immutable)]

CronBuilder(immutable, base) ==
    [immutable |-> immutable,
     minute |-> base + 1, hour |-> base + 2, day_of_month |-> base + 3,
     month |-> base + 4, day_of_week |-> base + 5,
     _conjunction |-> None]

\* a bug: in immutable mode the copy keeps the fresh fields and conjunction of
\* CronBuilder(immutable=True) where **fields names none, instead of self's
copy_with_forgets(m, self, name, value) ==
    LET s == m.builders[self]
    IN  IF ~s.immutable
        THEN [m EXCEPT !.builders[self][name] = value, !.ret = self]
        ELSE LET new == [CronBuilder(TRUE, Len(m.fields)) EXCEPT ![name] = value]
             IN  [m EXCEPT !.fields = @ \o CronBuilder_fields(TRUE),
                           !.builders = Append(@, new),
                           !.ret = Len(m.builders) + 1]

\* CronBuilder._copy_with(**{name: value}).  In immutable mode the five fields
\* the constructor of `new` creates are replaced at once and never referenced,
\* so `new` is built from the fields it ends with.
_copy_with(m, self, name, value) ==
    LET s == m.builders[self]
    IN  IF ~s.immutable
        THEN [m EXCEPT !.builders[self][name] = value, !.ret = self]
        ELSE LET new == [s EXCEPT ![name] = value]
             IN  [m EXCEPT !.builders = Append(@, new), !.ret = Len(m.builders) + 1]

\* self._copy_with(name=<the field a CronField setter returned in r>): the
\* argument is evaluated first, and its exception leaves _copy_with uncalled
copy_field(r, self, name) ==
    IF r.exc # "none" THEN r ELSE _copy_with(r, self, name, r.ret)

at_minute(m, self, minute) ==
    copy_field(set_value(m, m.builders[self].minute, minute), self, "minute")

at_minutes(m, self, minutes) ==
    copy_field(set_values(m, m.builders[self].minute, minutes), self, "minute")

every_minutes(m, self, interval) ==
    copy_field(set_interval(m, m.builders[self].minute, interval, -1), self, "minute")

minute_range(m, self, start, end) ==
    copy_field(set_range(m, m.builders[self].minute, start, end), self, "minute")

\* a bug: at_hour writes the minute field
at_hour_sets_minute(m, self, hour) ==
    copy_field(set_value(m, m.builders[self].minute, hour), self, "minute")

at_hour(m, self, hour) ==
    copy_field(set_value(m, m.builders[self].hour, hour), self, "hour")

at_hours(m, self, hours) ==
    copy_field(set_values(m, m.builders[self].hour, hours), self, "hour")

every_hours(m, self, interval) ==
    copy_field(set_interval(m, m.builders[self].hour, interval, -1), self, "hour")

hour_range(m, self, start, end) ==
    copy_field(set_range(m, m.builders[self].hour, start, end), self, "hour")

\* CronBuilder.at
at(m, self, hour, minute) ==
    LET result == at_hour(m, self, hour)
    IN  IF result.exc # "none" THEN result
        ELSE at_minute(result, result.ret, minute)

on_dom(m, self, day) ==
    copy_field(set_value(m, m.builders[self].day_of_month, day), self, "day_of_month")

on_doms(m, self, days) ==
    copy_field(set_values(m, m.builders[self].day_of_month, days), self, "day_of_month")

dom_range(m, self, start, end) ==
    copy_field(set_range(m, m.builders[self].day_of_month, start, end),
               self, "day_of_month")

in_month(m, self, month) ==
    copy_field(set_value(m, m.builders[self].month, month), self, "month")

in_months(m, self, months) ==
    copy_field(set_values(m, m.builders[self].month, months), self, "month")

month_range(m, self, start, end) ==
    copy_field(set_range(m, m.builders[self].month, start, end), self, "month")

on_dow(m, self, day) ==
    copy_field(set_value(m, m.builders[self].day_of_week, day), self, "day_of_week")

on_dows(m, self, days) ==
    copy_field(set_values(m, m.builders[self].day_of_week, days), self, "day_of_week")

on_weekdays(m, self) ==
    copy_field(set_range(m, m.builders[self].day_of_week, 1, 5), self, "day_of_week")

on_weekends(m, self) ==
    copy_field(set_values(m, m.builders[self].day_of_week, <<0, 6>>),
               self, "day_of_week")

dow_range(m, self, start, end) ==
    copy_field(set_range(m, m.builders[self].day_of_week, start, end),
               self, "day_of_week")

hourly(m, self, minute) == at_minute(m, self, minute)

daily(m, self, hour, minute) == at(m, self, hour, minute)

weekly(m, self, day, hour, minute) ==
    LET r == at(m, self, hour, minute)
    IN  IF r.exc # "none" THEN r ELSE on_dow(r, r.ret, day)

monthly(m, self, day, hour, minute) ==
    LET r == at(m, self, hour, minute)
    IN  IF r.exc # "none" THEN r ELSE on_dom(r, r.ret, day)

yearly(m, self, month, day, hour, minute) ==
    LET r == at(m, self, hour, minute)
        q == IF r.exc # "none" THEN r ELSE on_dom(r, r.ret, day)
    IN  IF q.exc # "none" THEN q ELSE in_month(q, q.ret, month)

\* the warnings.warn call of and_dow / and_dom
warn_conjunction(m, anchor, day) ==
    [m EXCEPT !.warned = Append(@, [kind |-> "conjunction", name |-> anchor,
                                     old |-> <<>>, new |-> str_int(day)])]

\* a bug: the prerequisite test is missing
and_dow_unguarded(m, self, day) ==
    _copy_with(warn_conjunction(m, "dow", day), self, "_conjunction", <<"dow", day>>)

and_dow(m, self, day) ==
    IF m.fields[m.builders[self].day_of_month].expr.kind = "any" THEN Raise(m)
    ELSE _copy_with(warn_conjunction(m, "dow", day), self, "_conjunction", <<"dow", day>>)

and_dom(m, self, day) ==
    IF m.fields[m.builders[self].day_of_week].expr.kind = "any" THEN Raise(m)
    ELSE _copy_with(warn_conjunction(m, "dom", day), self, "_conjunction", <<"dom", day>>)

\* a bug: under a dow conjunction a restricted day-of-month is replaced by the
\* anchor test instead of being AND-ed with it
should_run_anchor_only(h, self, day, weekday) ==
    LET b == h.builders[self]
        dt_weekday == (weekday + 1) % 7
    IN  IF b._conjunction = None THEN TRUE
        ELSE IF b._conjunction[1] = "dow" THEN dt_weekday = b._conjunction[2]
        ELSE IF ~matches(h.fields[b.day_of_week], dt_weekday) THEN FALSE
        ELSE day = b._conjunction[2]

\* a bug: the day-of-week field is also tested under a ("dow", a) conjunction
\* and the day-of-month field under a ("dom", a) conjunction
should_run_all_day_fields(h, self, day, weekday) ==
    LET b == h.builders[self]
        dt_weekday == (weekday + 1) % 7
    IN  IF b._conjunction = None THEN TRUE
        ELSE /\ matches(h.fields[b.day_of_month], day)
             /\ matches(h.fields[b.day_of_week], dt_weekday)
             /\ IF b._conjunction[1] = "dow" THEN dt_weekday = b._conjunction[2]
                ELSE day = b._conjunction[2]

\* CronBuilder.should_run(check_time) on the heap h, where day = check_time.day
\* and weekday = check_time.weekday() (Monday = 0)
should_run(h, self, day, weekday) ==
    LET b == h.builders[self]
    IN  IF b._conjunction = None THEN TRUE
        ELSE LET conj_type  == b._conjunction[1]
                 conj_value == b._conjunction[2]
                 dt_weekday == (weekday + 1) % 7
             IN  IF conj_type = "dow"
                 THEN IF ~matches(h.fields[b.day_of_month], day) THEN FALSE
                      ELSE dt_weekday = conj_value
                 ELSE IF ~matches(h.fields[b.day_of_week], dt_weekday) THEN FALSE
                      ELSE day = conj_value

\* a bug: the fields are joined in the order of a crontab's comment line read
\* backwards
builder_str_reversed(h, self) ==
    LET b == h.builders[self]
    IN  CronField_str(h.fields[b.day_of_week]) \o <<" ">> \o
        CronField_str(h.fields[b.month]) \o <<" ">> \o
        CronField_str(h.fields[b.day_of_month]) \o <<" ">> \o
        CronField_str(h.fields[b.hour]) \o <<" ">> \o
        CronField_str(h.fields[b.minute])

\* CronBuilder.__str__
CronBuilder_str(h, self) ==
    LET b == h.builders[self]
    IN  CronField_str(h.fields[b.minute]) \o <<" ">> \o
        CronField_str(h.fields[b.hour]) \o <<" ">> \o
        CronField_str(h.fields[b.day_of_month]) \o <<" ">> \o
        CronField_str(h.fields[b.month]) \o <<" ">> \o
        CronField_str(h.fields[b.day_of_week])

(***************************************************************************)
(* The arguments the calls are tried with.                                  *)
(***************************************************************************)
SeqsUpTo(S, n) == UNION {[1..k -> S] : k \in 0..n}

\* Spec: the last value of the field's range and the first value above it
ArgVals(name) == {max_val_of(name), max_val_of(name) + 1}

\* the default of a combinator's parameter (the lowest hour for at, which has none)
DefaultVal(name) ==
    CASE name = "day_of_week" -> Weekday_MONDAY
      [] name = "month" -> Month_JANUARY
      [] name = "day_of_month" -> 1
      [] OTHER -> 0

\* Spec: the arguments <<month, day, hour, minute>> of a combinator are its
\* defaults, or its defaults but for one argument above its field's range
CombinatorArgs ==
    LET names == <<"month", "day_of_month", "hour", "minute">>
        dflt  == [i \in 1..4 |-> DefaultVal(names[i])]
    IN  {dflt} \cup {[dflt EXCEPT ![i] = max_val_of(names[i]) + 1] : i \in 1..4}

\* DaySpec: the two ends of the field's range and the first value above it
DayVals(name) == {min_val_of(name), max_val_of(name), max_val_of(name) + 1}

\* FieldSpec: the two ends of the range, and the values next to them outside
FieldArgVals(f) == {f.min_val - 1, f.min_val, f.max_val, f.max_val + 1}

\* intervals: non-positive, 1..n, and the first value above the field's range
IntervalVals(n, max_val) == {-1, 0} \cup (1..n) \cup {max_val + 1}

\* datetime.day and datetime.weekday() of any timestamp
Days == 1..31
Weekdays == 0..6
\* and of the timestamps should_run is called with in DaySpec
CallDays == {1, 31}
CallWeekdays == {0, 6}

(***************************************************************************)
(* State machine.  The caller does not catch ValueError: a call that raises *)
(* is the last call of the run.                                             *)
(***************************************************************************)
Heap == [fields |-> fields, builders |-> builders, held |-> held]

\* the machine at the start of a call
M0 == [fields |-> fields, builders |-> builders, exc |-> "none", ret |-> 0,
       warned |-> <<>>]

NoCall == [op |-> "init", self |-> 0, args |-> <<>>, exc |-> "none", ret |-> 0,
           value |-> FALSE]

\* b = CronBuilder(immutable)
Init ==
    \E immutable \in BOOLEAN :
        /\ fields = CronBuilder_fields(immutable)
        /\ builders = <<CronBuilder(immutable, 0)>>
        /\ held = {1}
        /\ warned = <<>>
        /\ last = NoCall
        /\ pre = [fields |-> <<>>, builders |-> <<>>, held |-> {}]
        /\ ncalls = 0

\* f = CronField(min_val, max_val, name, immutable), with the bounds and names
\* of the builder's five fields
FieldInit ==
    \E immutable \in BOOLEAN, i \in 1..5 :
        /\ fields = <<CronBuilder_fields(immutable)[i]>>
        /\ builders = <<>>
        /\ held = {}
        /\ warned = <<>>
        /\ last = NoCall
        /\ pre = [fields |-> <<>>, builders |-> <<>>, held |-> {}]
        /\ ncalls = 0

\* the run goes on: nothing was raised, and fewer than n calls were made
Running(n) == last.exc = "none" /\ last.op # "should_run" /\ ncalls < n

\* the caller makes the call `op` on the builder `self`; r is the machine when
\* the call returns or raises.  The caller keeps the builder it is returned.
Call(op, self, args, r) ==
    /\ fields' = r.fields
    /\ builders' = r.builders
    /\ held' = IF r.exc = "none" THEN held \cup {r.ret} ELSE held
    /\ warned' = r.warned
    /\ last' = [op |-> op, self |-> self, args |-> args, exc |-> r.exc,
                ret |-> IF r.exc = "none" THEN r.ret ELSE 0, value |-> FALSE]
    /\ pre' = Heap
    /\ ncalls' = ncalls + 1

\* the caller makes the call `op` on the field `self`, and keeps the field
\* it is returned
FieldCall(op, self, args, r) ==
    /\ fields' = r.fields
    /\ builders' = r.builders
    /\ held' = held
    /\ warned' = r.warned
    /\ last' = [op |-> op, self |-> self, args |-> args, exc |-> r.exc,
                ret |-> IF r.exc = "none" THEN r.ret ELSE 0, value |-> FALSE]
    /\ pre' = Heap
    /\ ncalls' = ncalls + 1

(***************************************************************************)
(* Spec: every method of CronBuilder that sets something.                   *)
(***************************************************************************)
AtMinute ==
    /\ Running(MaxCalls)
    /\ \E self \in held, v \in ArgVals("minute") :
        Call("at_minute", self, <<v>>, at_minute(M0, self, v))
AtMinutes ==
    /\ Running(MaxCalls)
    /\ \E self \in held, vs \in SeqsUpTo(ArgVals("minute"), MaxList) :
        Call("at_minutes", self, vs, at_minutes(M0, self, vs))
EveryMinutes ==
    /\ Running(MaxCalls)
    /\ \E self \in held, i \in IntervalVals(MaxEvery, max_val_of("minute")) :
        Call("every_minutes", self, <<i>>, every_minutes(M0, self, i))
MinuteRange ==
    /\ Running(MaxCalls)
    /\ \E self \in held, a, b \in ArgVals("minute") :
        Call("minute_range", self, <<a, b>>, minute_range(M0, self, a, b))
AtHour ==
    /\ Running(MaxCalls)
    /\ \E self \in held, v \in ArgVals("hour") :
        Call("at_hour", self, <<v>>, at_hour(M0, self, v))
AtHours ==
    /\ Running(MaxCalls)
    /\ \E self \in held, vs \in SeqsUpTo(ArgVals("hour"), MaxList) :
        Call("at_hours", self, vs, at_hours(M0, self, vs))
EveryHours ==
    /\ Running(MaxCalls)
    /\ \E self \in held, i \in IntervalVals(MaxEvery, max_val_of("hour")) :
        Call("every_hours", self, <<i>>, every_hours(M0, self, i))
HourRange ==
    /\ Running(MaxCalls)
    /\ \E self \in held, a, b \in ArgVals("hour") :
        Call("hour_range", self, <<a, b>>, hour_range(M0, self, a, b))
At ==
    /\ Running(MaxCalls)
    /\ \E self \in held, a \in CombinatorArgs :
        Call("at", self, <<a[3], a[4]>>, at(M0, self, a[3], a[4]))
OnDom ==
    /\ Running(MaxCalls)
    /\ \E self \in held, v \in ArgVals("day_of_month") :
        Call("on_dom", self, <<v>>, on_dom(M0, self, v))
OnDoms ==
    /\ Running(MaxCalls)
    /\ \E self \in held, vs \in SeqsUpTo(ArgVals("day_of_month"), MaxList) :
        Call("on_doms", self, vs, on_doms(M0, self, vs))
DomRange ==
    /\ Running(MaxCalls)
    /\ \E self \in held, a, b \in ArgVals("day_of_month") :
        Call("dom_range", self, <<a, b>>, dom_range(M0, self, a, b))
InMonth ==
    /\ Running(MaxCalls)
    /\ \E self \in held, v \in ArgVals("month") :
        Call("in_month", self, <<v>>, in_month(M0, self, v))
InMonths ==
    /\ Running(MaxCalls)
    /\ \E self \in held, vs \in SeqsUpTo(ArgVals("month"), MaxList) :
        Call("in_months", self, vs, in_months(M0, self, vs))
MonthRange ==
    /\ Running(MaxCalls)
    /\ \E self \in held, a, b \in ArgVals("month") :
        Call("month_range", self, <<a, b>>, month_range(M0, self, a, b))
OnDow ==
    /\ Running(MaxCalls)
    /\ \E self \in held, v \in ArgVals("day_of_week") :
        Call("on_dow", self, <<v>>, on_dow(M0, self, v))
OnDows ==
    /\ Running(MaxCalls)
    /\ \E self \in held, vs \in SeqsUpTo(ArgVals("day_of_week"), MaxList) :
        Call("on_dows", self, vs, on_dows(M0, self, vs))
OnWeekdays ==
    /\ Running(MaxCalls)
    /\ \E self \in held : Call("on_weekdays", self, <<>>, on_weekdays(M0, self))
OnWeekends ==
    /\ Running(MaxCalls)
    /\ \E self \in held : Call("on_weekends", self, <<>>, on_weekends(M0, self))
DowRange ==
    /\ Running(MaxCalls)
    /\ \E self \in held, a, b \in ArgVals("day_of_week") :
        Call("dow_range", self, <<a, b>>, dow_range(M0, self, a, b))
Hourly ==
    /\ Running(MaxCalls)
    /\ \E self \in held, a \in CombinatorArgs :
        Call("hourly", self, <<a[4]>>, hourly(M0, self, a[4]))
Daily ==
    /\ Running(MaxCalls)
    /\ \E self \in held, a \in CombinatorArgs :
        Call("daily", self, <<a[3], a[4]>>, daily(M0, self, a[3], a[4]))
Weekly ==
    /\ Running(MaxCalls)
    /\ \E self \in held, a \in CombinatorArgs,
          d \in {DefaultVal("day_of_week"), max_val_of("day_of_week") + 1} :
        Call("weekly", self, <<d, a[3], a[4]>>, weekly(M0, self, d, a[3], a[4]))
Monthly ==
    /\ Running(MaxCalls)
    /\ \E self \in held, a \in CombinatorArgs :
        Call("monthly", self, <<a[2], a[3], a[4]>>, monthly(M0, self, a[2], a[3], a[4]))
Yearly ==
    /\ Running(MaxCalls)
    /\ \E self \in held, a \in CombinatorArgs :
        Call("yearly", self, a, yearly(M0, self, a[1], a[2], a[3], a[4]))
AndDow ==
    /\ Running(MaxCalls)
    /\ \E self \in held, d \in ArgVals("day_of_week") :
        Call("and_dow", self, <<d>>, and_dow(M0, self, d))
AndDom ==
    /\ Running(MaxCalls)
    /\ \E self \in held, d \in ArgVals("day_of_month") :
        Call("and_dom", self, <<d>>, and_dom(M0, self, d))

Next ==
    \/ AtMinute \/ AtMinutes \/ EveryMinutes \/ MinuteRange
    \/ AtHour \/ AtHours \/ EveryHours \/ HourRange \/ At
    \/ OnDom \/ OnDoms \/ DomRange
    \/ InMonth \/ InMonths \/ MonthRange
    \/ OnDow \/ OnDows \/ OnWeekdays \/ OnWeekends \/ DowRange
    \/ Hourly \/ Daily \/ Weekly \/ Monthly \/ Yearly
    \/ AndDow \/ AndDom

Spec == Init /\ [][Next]_vars

(***************************************************************************)
(* FieldSpec: the setters of CronField, called on a field directly.         *)
(***************************************************************************)
SetValue ==
    /\ Running(MaxFieldCalls)
    /\ \E self \in DOMAIN fields : \E v \in FieldArgVals(fields[self]) :
        FieldCall("set_value", self, <<v>>, set_value(M0, self, v))
SetValues ==
    /\ Running(MaxFieldCalls)
    /\ \E self \in DOMAIN fields :
         \E vs \in SeqsUpTo(FieldArgVals(fields[self]), MaxFieldList) :
            FieldCall("set_values", self, vs, set_values(M0, self, vs))
SetRange ==
    /\ Running(MaxFieldCalls)
    /\ \E self \in DOMAIN fields : \E a, b \in FieldArgVals(fields[self]) :
        FieldCall("set_range", self, <<a, b>>, set_range(M0, self, a, b))
SetInterval ==
    /\ Running(MaxFieldCalls)
    /\ \E self \in DOMAIN fields :
         \E i \in IntervalVals(MaxInterval, fields[self].max_val),
            s \in {-1} \cup FieldArgVals(fields[self]) :
            FieldCall("set_interval", self, <<i, s>>, set_interval(M0, self, i, s))
SetAny ==
    /\ Running(MaxFieldCalls)
    /\ \E self \in DOMAIN fields : FieldCall("set_any", self, <<>>, set_any(M0, self))

FieldNext == SetValue \/ SetValues \/ SetRange \/ SetInterval \/ SetAny

FieldSpec == FieldInit /\ [][FieldNext]_vars

(***************************************************************************)
(* DaySpec: the day-of-month and day-of-week setters, the conjunction       *)
(* setters and should_run.                                                  *)
(***************************************************************************)
DayOnDom ==
    /\ Running(MaxDayCalls)
    /\ \E self \in held, v \in DayVals("day_of_month") :
        Call("on_dom", self, <<v>>, on_dom(M0, self, v))
DayOnDoms ==
    /\ Running(MaxDayCalls)
    /\ \E self \in held, vs \in SeqsUpTo(DayVals("day_of_month"), MaxDayList) :
        Call("on_doms", self, vs, on_doms(M0, self, vs))
DayDomRange ==
    /\ Running(MaxDayCalls)
    /\ \E self \in held, a, b \in DayVals("day_of_month") :
        Call("dom_range", self, <<a, b>>, dom_range(M0, self, a, b))
DayOnDow ==
    /\ Running(MaxDayCalls)
    /\ \E self \in held, v \in DayVals("day_of_week") :
        Call("on_dow", self, <<v>>, on_dow(M0, self, v))
DayOnDows ==
    /\ Running(MaxDayCalls)
    /\ \E self \in held, vs \in SeqsUpTo(DayVals("day_of_week"), MaxDayList) :
        Call("on_dows", self, vs, on_dows(M0, self, vs))
DayDowRange ==
    /\ Running(MaxDayCalls)
    /\ \E self \in held, a, b \in DayVals("day_of_week") :
        Call("dow_range", self, <<a, b>>, dow_range(M0, self, a, b))
DayOnWeekdays ==
    /\ Running(MaxDayCalls)
    /\ \E self \in held : Call("on_weekdays", self, <<>>, on_weekdays(M0, self))
DayOnWeekends ==
    /\ Running(MaxDayCalls)
    /\ \E self \in held : Call("on_weekends", self, <<>>, on_weekends(M0, self))
DayAndDow ==
    /\ Running(MaxDayCalls)
    /\ \E self \in held, d \in DayVals("day_of_week") :
        Call("and_dow", self, <<d>>, and_dow(M0, self, d))
DayAndDom ==
    /\ Running(MaxDayCalls)
    /\ \E self \in held, d \in DayVals("day_of_month") :
        Call("and_dom", self, <<d>>, and_dom(M0, self, d))

\* b.should_run(check_time), made once the schedule is built: it reads only
ShouldRun ==
    /\ last.exc = "none" /\ last.op # "should_run"
    /\ \E self \in held, d \in CallDays, w \in CallWeekdays :
        /\ last' = [op |-> "should_run", self |-> self, args |-> <<d, w>>,
                    exc |-> "none", ret |-> 0,
                    value |-> should_run(Heap, self, d, w)]
        /\ warned' = <<>>
        /\ pre' = Heap
        /\ ncalls' = ncalls + 1
        /\ UNCHANGED <<fields, builders, held>>

DayNext ==
    \/ DayOnDom \/ DayOnDoms \/ DayDomRange
    \/ DayOnDow \/ DayOnDows \/ DayDowRange \/ DayOnWeekdays \/ DayOnWeekends
    \/ DayAndDow \/ DayAndDom \/ ShouldRun

DaySpec == Init /\ [][DayNext]_vars

(***************************************************************************)
(* What a caller observes of a builder.                                     *)
(***************************************************************************)
\* the expressions of the five fields of builder b on heap h, in order
FieldExprs(h, b) == [i \in 1..5 |-> h.fields[h.builders[b][FieldNames[i]]].expr]

View(h, b) ==
    [exprs |-> FieldExprs(h, b),
     conjunction |-> h.builders[b]._conjunction,
     str |-> CronBuilder_str(h, b)]

Combinators == {"at", "hourly", "daily", "weekly", "monthly", "yearly"}
Conjunctions == {"and_dow", "and_dom"}

(***************************************************************************)
(* Claims.                                                                  *)
(***************************************************************************)

\* C1: in immutable mode no call, whether it returns or raises, and whether it
\* is made on a builder or on one derived from it, changes the five field
\* expressions, the rendering or the conjunction of any builder that existed
\* before the call; and a call that returns returns a builder that is not its
\* receiver (nor any builder that existed before).
C1_ImmutableIsolation ==
    /\ \A b \in pre.held :
          pre.builders[b].immutable => View(Heap, b) = View(pre, b)
    /\ (last.op # "init" /\ last.exc = "none" /\ builders[last.self].immutable)
          => (last.ret # last.self /\ last.ret \notin pre.held)

\* C1 witness: a setter returned on a builder derived from the first one, and
\* its result differs from its receiver
C1_Witness ==
    /\ builders[1].immutable
    /\ last.op = "at_hour" /\ last.exc = "none" /\ last.self = 2
    /\ View(Heap, last.ret).str # View(Heap, 2).str
    /\ View(Heap, 2).str # View(Heap, 1).str

\* C2: in mutable mode a combinator that fails with a range error on one of
\* its arguments leaves the five fields and the conjunction of the builder as
\* they were before the call.
C2_FailedCombinatorNoEffect ==
    (last.op \in Combinators /\ last.exc = "ValueError"
        /\ ~builders[last.self].immutable)
      => View(Heap, last.self) = View(pre, last.self)

\* v is outside the bounds of field f
Outside(f, v) == v < f.min_val \/ v > f.max_val

\* C3: a CronField setter whose arguments are invalid (set_value with v outside
\* [min,max]; set_values with a member outside, wherever it is; set_range with
\* a bound outside or lo > hi; set_interval with interval <= 0 or a start other
\* than the default -1 outside) raises the range error, leaves every field as
\* it was and emits no warning, in both modes.
C3_FailedSetterNoEffect ==
    LET f == pre.fields[last.self]
        a == last.args
        invalid ==
            \/ last.op = "set_value" /\ Outside(f, a[1])
            \/ last.op = "set_values" /\ \E i \in 1..Len(a) : Outside(f, a[i])
            \/ last.op = "set_range"
                 /\ (Outside(f, a[1]) \/ Outside(f, a[2]) \/ a[1] > a[2])
            \/ last.op = "set_interval"
                 /\ (a[1] <= 0 \/ (a[2] # -1 /\ Outside(f, a[2])))
    IN  (last.op # "init" /\ invalid)
           => (last.exc = "ValueError" /\ fields = pre.fields /\ warned = <<>>)

\* C3 witness: set_values raised on its second value, on a mutable field that
\* held an expression a successful call would have warned about
C3_Witness ==
    /\ last.op = "set_values" /\ Len(last.args) = 2
    /\ ~Outside(pre.fields[last.self], last.args[1])
    /\ Outside(pre.fields[last.self], last.args[2])
    /\ last.exc = "ValueError"
    /\ ~fields[last.self].immutable
    /\ fields[last.self].expr.kind = "range"

\* C4: and_dow on a builder whose day-of-month is the wildcard, and and_dom on
\* one whose day-of-week is the wildcard, raise; then no builder's fields or
\* conjunction change and no warning is emitted.  With the prerequisite field
\* set, the call returns a builder whose conjunction is (dow, day), (dom, day).
C4_ConjunctionPrecondition ==
    LET prereq == IF last.op = "and_dow" THEN "day_of_month" ELSE "day_of_week"
        anchor == IF last.op = "and_dow" THEN "dow" ELSE "dom"
        wild   == pre.fields[pre.builders[last.self][prereq]].expr.kind = "any"
    IN  last.op \in Conjunctions =>
          IF wild
          THEN /\ last.exc = "ValueError"
               /\ \A b \in pre.held : View(Heap, b) = View(pre, b)
               /\ held = pre.held
               /\ warned = <<>>
          ELSE /\ last.exc = "none"
               /\ builders[last.ret]._conjunction = <<anchor, last.args[1]>>

\* C4 witness: and_dow raised on a builder whose day-of-week was set but whose
\* day-of-month was not
C4_Witness ==
    /\ last.op = "and_dow" /\ last.exc = "ValueError"
    /\ FieldExprs(Heap, last.self)[5].kind # "any"
    /\ FieldExprs(Heap, last.self)[3].kind = "any"

\* the builder the last call returned (the first builder, before any call)
Returned == IF last.op = "init" THEN 1 ELSE last.ret

\* the evaluation the documentation gives for should_run
Reference(h, b, day, weekday) ==
    LET c == h.builders[b]._conjunction
        sunday0 == (weekday + 1) % 7
    IN  CASE c = None -> TRUE
          [] c # None /\ c[1] = "dow" ->
                matches(h.fields[h.builders[b].day_of_month], day) /\ sunday0 = c[2]
          [] c # None /\ c[1] = "dom" ->
                matches(h.fields[h.builders[b].day_of_week], sunday0) /\ day = c[2]

\* C5: for every builder a call returns, and every day of month 1..31 and host
\* weekday 0..6 (Monday = 0), should_run is TRUE without a conjunction, is
\* (day-of-month matches d) AND ((w + 1) mod 7 = a) under (dow, a), and is
\* (day-of-week matches (w + 1) mod 7) AND (d = a) under (dom, a); and each
\* should_run call made returned that value.
C5_ShouldRunReference ==
    /\ (last.exc = "none" /\ last.op # "should_run") =>
          \A d \in Days, w \in Weekdays :
              should_run(Heap, Returned, d, w) = Reference(Heap, Returned, d, w)
    /\ last.op = "should_run" =>
          last.value = Reference(Heap, last.self, last.args[1], last.args[2])

\* C5 witness: should_run returned FALSE on the 31st, a Sunday, under the
\* conjunction (dow, 0), because the day-of-month list does not hold 31
C5_Witness ==
    /\ last.op = "should_run" /\ last.args = <<31, 6>> /\ ~last.value
    /\ builders[last.self]._conjunction = <<"dow", 0>>
    /\ FieldExprs(Heap, last.self)[3].kind = "list"

\* the per-field setters of the builder, by the field they set
MinuteSetters == {"at_minute", "at_minutes", "every_minutes", "minute_range"}
HourSetters == {"at_hour", "at_hours", "every_hours", "hour_range"}
DomSetters == {"on_dom", "on_doms", "dom_range"}
MonthSetters == {"in_month", "in_months", "month_range"}
DowSetters == {"on_dow", "on_dows", "on_weekdays", "on_weekends", "dow_range"}
FieldSetters ==
    MinuteSetters \cup HourSetters \cup DomSetters \cup MonthSetters \cup DowSetters
ValueSetters == {"at_minute", "at_hour", "on_dom", "in_month", "on_dow"}
Target(op) ==
    CASE op \in MinuteSetters -> "minute"
      [] op \in HourSetters -> "hour"
      [] op \in DomSetters -> "day_of_month"
      [] op \in MonthSetters -> "month"
      [] op \in DowSetters -> "day_of_week"

\* the overwrite warnings of the last call
Overwrites == SelectSeq(warned, LAMBDA w : w.kind = "overwritten")

\* C6: a per-field setter call that sets its field emits one overwrite warning,
\* naming that field, when the builder is mutable and the field's expression
\* before the call is not the wildcard, and none otherwise (a call that raises
\* emits none); a single-value setter leaves its field rendering that value
\* alone; and no call on an immutable builder emits an overwrite warning.
C6_OverwriteWarning ==
    /\ last.op \in FieldSetters =>
          LET t   == Target(last.op)
              old == pre.fields[pre.builders[last.self][t]].expr
              due == /\ last.exc = "none"
                     /\ ~pre.builders[last.self].immutable
                     /\ old.kind # "any"
          IN  /\ Len(Overwrites) = (IF due THEN 1 ELSE 0)
              /\ due => Overwrites[1].name = t
              /\ (last.op \in ValueSetters /\ last.exc = "none") =>
                    CronField_str(fields[builders[last.ret][t]]) = str_int(last.args[1])
    /\ (last.op # "init" /\ builders[last.self].immutable) => Overwrites = <<>>

\* C6 witness: the hour of a mutable builder was set to 0 and then to 23: the
\* second call warned once and the hour renders "23"
C6_Witness ==
    /\ ~builders[1].immutable
    /\ last.op = "at_hour" /\ last.exc = "none"
    /\ to_cron_str(pre.fields[pre.builders[1].hour].expr) = <<"0">>
    /\ CronField_str(fields[builders[1].hour]) = <<"2", "3">>
    /\ Len(warned) = 1 /\ warned[1].kind = "overwritten"

\* str.split(sep) for a one-character sep
RECURSIVE split(_, _)
split(s, sep) ==
    IF \A i \in 1..Len(s) : s[i] # sep THEN <<s>>
    ELSE LET i == CHOOSE k \in 1..Len(s) :
                      s[k] = sep /\ \A j \in 1..(k - 1) : s[j] # sep
         IN  <<SubSeq(s, 1, i - 1)>> \o split(SubSeq(s, i + 1, Len(s)), sep)

\* C7 as claimed: the rendering of every builder a setter returns (list setters
\* called with no values included) is five non-empty tokens separated by single
\* spaces, each the rendering of its field's expression, in the order minute,
\* hour, day-of-month, month, day-of-week; a fresh builder renders "* * * * *".
C7_FiveNonEmptyTokens ==
    last.exc = "none" =>
        LET tokens == split(CronBuilder_str(Heap, Returned), " ")
        IN  /\ Len(tokens) = 5
            /\ \A i \in 1..5 :
                  /\ tokens[i] # <<>>
                  /\ tokens[i] = to_cron_str(FieldExprs(Heap, Returned)[i])
            /\ last.op = "init" => tokens = << <<"*">>, <<"*">>, <<"*">>, <<"*">>, <<"*">> >>

\* C7 amended: as claimed, but a token is empty exactly when its field holds
\* the list of no values that a list setter called with no values stores.
C7_FiveTokens ==
    last.exc = "none" =>
        LET tokens == split(CronBuilder_str(Heap, Returned), " ")
            exprs  == FieldExprs(Heap, Returned)
        IN  /\ Len(tokens) = 5
            /\ \A i \in 1..5 :
                  /\ tokens[i] = <<>> <=> (exprs[i].kind = "list" /\ exprs[i].values = <<>>)
                  /\ tokens[i] = to_cron_str(exprs[i])
            /\ last.op = "init" => tokens = << <<"*">>, <<"*">>, <<"*">>, <<"*">>, <<"*">> >>

\* C7 witness: a list setter called with no values returned, after another
\* field was set
C7_Witness ==
    /\ last.op = "on_doms" /\ last.args = <<>> /\ last.exc = "none"
    /\ FieldExprs(Heap, last.ret)[1].kind = "step"
    /\ split(CronBuilder_str(Heap, last.ret), " ")[3] = <<>>

\* C8: and_dow and and_dom, when they return, return a builder whose five field
\* expressions and rendering are those its receiver had before the call, in
\* both modes.
C8_ConjunctionKeepsRendering ==
    (last.op \in Conjunctions /\ last.exc = "none") =>
        /\ FieldExprs(Heap, last.ret) = FieldExprs(pre, last.self)
        /\ CronBuilder_str(Heap, last.ret) = CronBuilder_str(pre, last.self)

\* C8 witness: and_dow returned, on an immutable builder whose day-of-month is
\* a range
C8_Witness ==
    /\ last.op = "and_dow" /\ last.exc = "none"
    /\ builders[last.self].immutable
    /\ builders[last.ret]._conjunction # None
    /\ FieldExprs(Heap, last.ret)[3].kind = "range"

\* C9: on a field with bounds [min,max], set_range(lo, hi) returns exactly when
\* min <= lo <= hi <= max; the field it returns then matches x, for every x in
\* [min,max], exactly when lo <= x <= hi, and renders "lo-hi".  In every other
\* case set_range raises the range error.
C9_SetRange ==
    last.op = "set_range" =>
        LET f  == pre.fields[last.self]
            lo == last.args[1]
            hi == last.args[2]
        IN  IF f.min_val <= lo /\ lo <= hi /\ hi <= f.max_val
            THEN /\ last.exc = "none"
                 /\ \A x \in f.min_val..f.max_val :
                       matches(fields[last.ret], x) <=> (lo <= x /\ x <= hi)
                 /\ CronField_str(fields[last.ret])
                       = str_int(lo) \o <<"-">> \o str_int(hi)
            ELSE last.exc = "ValueError"

\* C9 witness: set_range returned on the day-of-month field with lo < hi
C9_Witness ==
    /\ last.op = "set_range" /\ last.exc = "none"
    /\ last.args = <<1, 31>>
    /\ CronField_str(fields[last.ret]) = <<"1", "-", "3", "1">>

\* C10: after set_interval(interval) with no explicit start, the values of
\* [min,max] the field matches are min, min + interval, min + 2*interval, ...
C10_StepFromMinimum ==
    (last.op = "set_interval" /\ last.args[2] = -1 /\ last.exc = "none") =>
        LET f == fields[last.ret]
        IN  {x \in f.min_val..f.max_val : matches(f, x)}
              = {x \in f.min_val..f.max_val : (x - f.min_val) % last.args[1] = 0}

\* C11: set_interval raises the range error whenever the interval is outside
\* the bounds of its field, and then leaves every field as it was.
C11_IntervalWithinBounds ==
    (last.op = "set_interval" /\ Outside(pre.fields[last.self], last.args[1])) =>
        (last.exc = "ValueError" /\ fields = pre.fields)

\* the values of a field's expression respect the field's bounds
InBounds(f) ==
    LET e == f.expr
        ok(v) == f.min_val <= v /\ v <= f.max_val
    IN  CASE e.kind = "any" -> TRUE
          [] e.kind = "value" -> ok(e.values[1])
          [] e.kind = "list" -> \A i \in 1..Len(e.values) : ok(e.values[i])
          [] e.kind = "range" ->
                ok(e.values[1]) /\ ok(e.values[2]) /\ e.values[1] <= e.values[2]
          [] e.kind = "step" ->
                (e.values[1] # -1 => ok(e.values[1])) /\ e.values[2] > 0
          [] OTHER -> FALSE

\* C12: in every reachable state, after calls that returned and calls that
\* raised, in both modes, every field's single value, list members, range
\* bounds and explicit step start lie within [min_val, max_val], every range
\* has lo <= hi and every step a positive interval.
C12_FieldBounds == \A i \in DOMAIN fields : InBounds(fields[i])

\* C12 witness: a second call, set_interval with the explicit start max_val,
\* returned and its step expression is stored
C12_Witness ==
    /\ ncalls = 2 /\ last.op = "set_interval" /\ last.exc = "none"
    /\ last.args[2] = fields[last.ret].max_val
    /\ fields[last.ret].expr = CronExpr("step", <<last.args[2], last.args[1]>>)

\* the outcomes of one more setter call on the field called name of builder
\* b, from the present heap: a value at each end of the field's bounds, and
\* an interval, a range or a named set of days
Following(b, name) ==
    LET lo == min_val_of(name)
        hi == max_val_of(name)
    IN  CASE name = "minute" ->
                {at_minute(M0, b, v) : v \in {lo, hi}} \cup {every_minutes(M0, b, 1)}
          [] name = "hour" ->
                {at_hour(M0, b, v) : v \in {lo, hi}} \cup {every_hours(M0, b, 1)}
          [] name = "day_of_month" ->
                {on_dom(M0, b, v) : v \in {lo, hi}} \cup {dom_range(M0, b, lo, lo)}
          [] name = "month" ->
                {in_month(M0, b, v) : v \in {lo, hi}} \cup {month_range(M0, b, hi, hi)}
          [] name = "day_of_week" ->
                {on_dow(M0, b, v) : v \in {lo, hi}} \cup {on_weekdays(M0, b)}

\* C13: a per-field setter that returned left the other four fields of its
\* result the very field objects of the receiver before the call, with the
\* expressions they had, and the conjunction as it was; in mutable mode the
\* result is the receiver, in immutable mode a builder that did not exist.
\* And one more setter call on a builder returned with a conjunction returns
\* a builder with that conjunction.
C13_SetterFrame ==
  /\ (last.exc = "none" /\ builders[Returned]._conjunction # None) =>
        \A i \in 1..5 : \A r \in Following(Returned, FieldNames[i]) :
            /\ r.exc = "none"
            /\ r.builders[r.ret]._conjunction = builders[Returned]._conjunction
  /\
    (last.op \in FieldSetters /\ last.exc = "none") =>
        LET before == pre.builders[last.self]
            after  == builders[last.ret]
        IN  /\ \A i \in 1..5 :
                  FieldNames[i] # Target(last.op) =>
                      /\ after[FieldNames[i]] = before[FieldNames[i]]
                      /\ fields[after[FieldNames[i]]].expr
                            = pre.fields[before[FieldNames[i]]].expr
            /\ after._conjunction = before._conjunction
            /\ after.immutable = before.immutable
            /\ ~before.immutable => last.ret = last.self
            /\ before.immutable => last.ret \notin DOMAIN pre.builders

\* C13 witness: in immutable mode in_month returned on a builder whose hour
\* had been set, and the result has that hour and the new month
C13_Witness ==
    /\ last.op = "in_month" /\ last.exc = "none"
    /\ builders[last.ret].immutable
    /\ FieldExprs(pre, last.self)[2].kind = "value"
    /\ FieldExprs(Heap, last.ret)[2] = FieldExprs(pre, last.self)[2]
    /\ FieldExprs(Heap, last.ret)[4].kind = "value"

\* C14: in every reachable state the anchor of a recorded conjunction lies in
\* its domain: 0..6 for ("dow", a), 1..31 for ("dom", a).
C14_AnchorDomain ==
    \A b \in DOMAIN builders :
        LET c == builders[b]._conjunction
        IN  c # None =>
                IF c[1] = "dow"
                THEN min_val_of("day_of_week") <= c[2] /\ c[2] <= max_val_of("day_of_week")
                ELSE min_val_of("day_of_month") <= c[2] /\ c[2] <= max_val_of("day_of_month")

(***************************************************************************)
(* Schedules that differ in fields should_run does not read: a day field   *)
(* is set, a conjunction added, and other fields are set before or after,  *)
(* each with a value at an end of the field's bounds.                      *)
(***************************************************************************)
PairVals(name) == {min_val_of(name), max_val_of(name)}

PairAtMinute ==
    /\ Running(MaxPairCalls)
    /\ \E self \in held :
        Call("at_minute", self, <<max_val_of("minute")>>,
             at_minute(M0, self, max_val_of("minute")))

PairAtHour ==
    /\ Running(MaxPairCalls)
    /\ \E self \in held :
        Call("at_hour", self, <<max_val_of("hour")>>,
             at_hour(M0, self, max_val_of("hour")))

PairInMonth ==
    /\ Running(MaxPairCalls)
    /\ \E self \in held :
        Call("in_month", self, <<max_val_of("month")>>,
             in_month(M0, self, max_val_of("month")))

PairOnDom ==
    /\ Running(MaxPairCalls)
    /\ \E self \in held, v \in PairVals("day_of_month") :
        Call("on_dom", self, <<v>>, on_dom(M0, self, v))

PairOnDow ==
    /\ Running(MaxPairCalls)
    /\ \E self \in held, v \in PairVals("day_of_week") :
        Call("on_dow", self, <<v>>, on_dow(M0, self, v))

PairAndDow ==
    /\ Running(MaxPairCalls)
    /\ \E self \in held, d \in PairVals("day_of_week") :
        Call("and_dow", self, <<d>>, and_dow(M0, self, d))

PairAndDom ==
    /\ Running(MaxPairCalls)
    /\ \E self \in held, d \in PairVals("day_of_month") :
        Call("and_dom", self, <<d>>, and_dom(M0, self, d))

PairNext ==
    \/ PairAtMinute \/ PairAtHour \/ PairInMonth
    \/ PairOnDom \/ PairOnDow \/ PairAndDow \/ PairAndDom

PairSpec == Init /\ [][PairNext]_vars

\* the builders a caller can compare: those held now, and a mutable builder
\* as it was before the last call (an immutable one is still held as it was)
Snapshots ==
    {<<Heap, b>> : b \in held}
        \cup {<<pre, b>> : b \in {c \in pre.held : ~pre.builders[c].immutable}}

\* the conjunction of a snapshot, and the expression of its primary day field
ConjunctionOf(x) == x[1].builders[x[2]]._conjunction

Primary(x) ==
    LET b == x[1].builders[x[2]]
    IN  IF ConjunctionOf(x)[1] = "dow" THEN x[1].fields[b.day_of_month].expr
        ELSE x[1].fields[b.day_of_week].expr

\* C15: two builders with the same conjunction and the same expression in
\* its primary day field (day-of-month under "dow", day-of-week under "dom")
\* give the same should_run at every day of month and weekday, whatever their
\* minute, hour, month and other day expressions.
C15_ShouldRunIgnoresOtherFields ==
    LET joined == {x \in Snapshots : ConjunctionOf(x) # None}
        runs == [x \in joined |->
                    {t \in Days \X Weekdays : should_run(x[1], x[2], t[1], t[2])}]
    IN  \A x \in joined, y \in joined :
            (ConjunctionOf(y) = ConjunctionOf(x) /\ Primary(y) = Primary(x)) =>
                runs[x] = runs[y]

\* C15 witness: two builders under ("dow", 0) with day-of-month 1, one with
\* the day-of-week 6 and the other with another day-of-week expression; both
\* run on the 1st when it is a Sunday
C15_Witness ==
    \E x \in Snapshots, y \in Snapshots :
        /\ ConjunctionOf(x) = <<"dow", 0>> /\ ConjunctionOf(y) = <<"dow", 0>>
        /\ Primary(x) = CronExpr("value", <<1>>) /\ Primary(y) = Primary(x)
        /\ FieldExprs(x[1], x[2])[5] = CronExpr("value", <<6>>)
        /\ FieldExprs(y[1], y[2])[5] # FieldExprs(x[1], x[2])[5]
        /\ should_run(x[1], x[2], 1, 6)
        /\ should_run(y[1], y[2], 1, 6)

====
